---- MODULE Spec2Model ----
(***************************************************************************)
(* DynamicMultiLaneTrafficController (src/revised_algorithm.py) as a state *)
(* machine.  One action per public operation: register_ambulance and       *)
(* update.  An update that raises keeps every assignment it made before    *)
(* the exception, exactly as the Python object does.                       *)
(*                                                                         *)
(* Units.  Durations and clock readings are integers counting ticks of     *)
(* 1/30 s, so that every float the code computes from integer counts is    *)
(* represented exactly: 3.0 s = 90, 15.0 s = 450, 1.5 s = 45, 0.5 s = 15,  *)
(* normal * 0.8 s = 24 * normal, emergency * 2.0 s = 60 * emergency,       *)
(* Q / 3.0 s = 10 * Q.  int(clearance_rate * g) is (clearance_rate * g)    *)
(* \div 30 on a duration g in ticks.                                       *)
(*                                                                         *)
(* Lane identifiers are non-empty names (modelled by 1, 2, ...), so the    *)
(* truth test "if dest:" is the test that a destination is defined.        *)
(***************************************************************************)
EXTENDS Integers, Sequences, FiniteSets, TLC

\* ------------------------------------------------------------------------
\* Configuration (constructor defaults, in ticks where they are durations)
\* ------------------------------------------------------------------------
min_green == 90
max_green == 450
clearance_rate == 3
exit_capacity_default == 20
starvation_limit == 8
ambulance_safety_margin == 45
reaction_margin == 15

\* ------------------------------------------------------------------------
\* Bounds of the model
\* ------------------------------------------------------------------------
MaxLanes == 2
MaxCalls == 3
MaxAmbulances == 2
MaxNormal == 100
MaxWait == 16
MaxFairCycles == 12
MaxStarveCycles == 10
MaxCrossingLanes == 4

\* ------------------------------------------------------------------------
\* Small helpers
\* ------------------------------------------------------------------------
Range(s) == {s[i] : i \in DOMAIN s}

Min(a, b) == IF a <= b THEN a ELSE b

Max(a, b) == IF a >= b THEN a ELSE b

IndexOf(s, x) == CHOOSE i \in DOMAIN s : s[i] = x

\* the three-element light vector [R, Y, G]
RED == <<1, 0, 0>>

GREEN == <<0, 0, 1>>

\* self.movements, in iteration order
movements == <<"straight", "left", "right">>

MovSet == Range(movements)

\* None as the value of last_emergency_lane (lane names start at 1), of
\* current_green and of the key choose_emergency_movement returns
NoLane == 0

NoGreen == [kind |-> "None", movs |-> <<>>]

NoKey == <<>>

\* the lane whose identifier is the empty string, and the test "if dest:"
\* on a lane identifier
Unnamed == 0 - 1

truthy(lane) == lane # Unnamed

\* keys (lane, mov) in the order "for lane in self.lanes: for mov in
\* self.movements" visits them
KeySeq(order) ==
    [i \in 1..(3 * Len(order)) |->
        <<order[((i - 1) \div 3) + 1], movements[((i - 1) % 3) + 1]>>]

\* ------------------------------------------------------------------------
\* State
\* ------------------------------------------------------------------------
VARIABLES
    lanes,                  \* self.lanes: lane -> mov -> [normal, emergency, wait, state]
    lane_order,             \* insertion order of the keys of self.lanes
    exit_capacity,          \* self.exit_capacity
    turn_map,               \* self.turn_map: (lane, mov) -> destination lane
    conflicts,              \* self.conflicts: (lane, mov) -> list of keys
    ambulances,             \* self.ambulances
    planned_ambulance_jobs, \* self.planned_ambulance_jobs
    current_green,          \* self.current_green: None or [kind, movs]
    green_started_at,       \* self.green_started_at
    current_green_time,     \* self.current_green_time
    last_emergency_lane,    \* self.last_emergency_lane (None until first set)
    now,                    \* last reading of time.time()
    last_call,              \* the last call made on the controller and its outcome
    pre,                    \* self.lanes as it stood after ingestion in the last update
    flat0,                  \* the working view "flat" as built by the last update
    calls,                  \* number of calls made on the controller
    denied,                 \* (lane, mov) -> number of the latest consecutive updates
                            \* that left it RED although it had normal > 0 and an
                            \* unblocked destination
    first_green_at          \* single-movement controller: the clock reading at which
                            \* self.current_green last changed to the lane it names

vars == <<lanes, lane_order, exit_capacity, turn_map, conflicts, ambulances,
          planned_ambulance_jobs, current_green, green_started_at,
          current_green_time, last_emergency_lane, now, last_call, pre, flat0,
          calls, denied, first_green_at>>

EmptyFn == [x \in {} |-> 0]

EmptyFlat == [keys |-> <<>>, val |-> EmptyFn]

Init ==
    /\ lanes = EmptyFn
    /\ lane_order = <<>>
    /\ exit_capacity = EmptyFn
    /\ turn_map = EmptyFn
    /\ conflicts = EmptyFn
    /\ ambulances = <<>>
    /\ planned_ambulance_jobs = <<>>
    /\ current_green = NoGreen
    /\ green_started_at = 0
    /\ current_green_time = min_green
    /\ last_emergency_lane = NoLane
    /\ now = 0
    /\ last_call = [op |-> "init", outcome |-> "returned", value |-> EmptyFn]
    /\ pre = EmptyFn
    /\ flat0 = EmptyFlat
    /\ calls = 0
    /\ denied = EmptyFn
    /\ first_green_at = 0

\* ------------------------------------------------------------------------
\* Topology
\* ------------------------------------------------------------------------
NewLane ==
    [m \in MovSet |-> [normal |-> 0, emergency |-> 0, wait |-> 0, state |-> RED]]

\* ensure_lane on the triple (self.lanes, key order, self.exit_capacity)
ensure_lane(c, lane_id) ==
    IF lane_id \in DOMAIN c.lanes
    THEN c
    ELSE [lanes |-> c.lanes @@ (lane_id :> NewLane),
          order |-> Append(c.order, lane_id),
          cap   |-> c.cap @@ (lane_id :> exit_capacity_default)]

RECURSIVE ensure_lanes(_, _, _)
ensure_lanes(c, snap, i) ==
    IF i > Len(snap) THEN c
    ELSE ensure_lanes(ensure_lane(c, snap[i].lane_id), snap, i + 1)

\* rebuild_turn_map: entries of every current lane are overwritten, older
\* entries (there are none: lanes are never removed) are kept
rebuild_turn_map(order, tm) ==
    LET n == Len(order)
        dest(i, mov) ==
            IF n > 1
            THEN CASE mov = "straight" -> order[(((i - 1) + (n \div 2)) % n) + 1]
                   [] mov = "left"     -> order[(((i - 1) + n - 1) % n) + 1]
                   [] mov = "right"    -> order[(((i - 1) + 1) % n) + 1]
            ELSE order[i]
        new == [k \in Range(KeySeq(order)) |-> dest(IndexOf(order, k[1]), k[2])]
    IN  new @@ tm

\* rebuild_conflicts: for each key the list of same-lane movements followed,
\* when its destination passes "if dest:", by the keys (in iteration order)
\* that share its destination
conflicts_over(ks, tm) ==
    LET same_lane(key) ==
            LET other(m) == m # key[2]
            IN  [j \in 1..2 |-> <<key[1], SelectSeq(movements, other)[j]>>]
        same_dest(key) ==
            IF key \in DOMAIN tm /\ truthy(tm[key])
            THEN LET hit(k2) == k2 # key /\ k2 \in DOMAIN tm /\ tm[k2] = tm[key]
                 IN  SelectSeq(ks, hit)
            ELSE <<>>
    IN  [key \in Range(ks) |-> same_lane(key) \o same_dest(key)]

rebuild_conflicts(order, tm) == conflicts_over(KeySeq(order), tm)

\* ------------------------------------------------------------------------
\* register_ambulance
\* ------------------------------------------------------------------------
register_ambulance(ambs, amb_id, lane, mov, eta_seconds, t) ==
    LET keep(a) == a.id # amb_id
    IN  Append(SelectSeq(ambs, keep),
               [id |-> amb_id, lane |-> lane, mov |-> mov,
                eta |-> t + eta_seconds, detected_at |-> t])

\* ------------------------------------------------------------------------
\* Blocking and compatibility
\* ------------------------------------------------------------------------
\* Q of a lane: sum over self.movements of normal + emergency
lane_total(L, lane) ==
    LET q(m) == L[lane][m].normal + L[lane][m].emergency
    IN  q(movements[1]) + q(movements[2]) + q(movements[3])

\* exit_blocked with the default margin = 2
exit_blocked(L, cap, lane) == lane_total(L, lane) >= cap[lane] - 2

\* self.conflicts.get(k, [])
conflicts_of(cf, k) == IF k \in DOMAIN cf THEN cf[k] ELSE <<>>

movements_compatible(cf, tm, L, cap, m1, m2) ==
    IF m1 = m2 THEN FALSE
    ELSE IF m2 \in Range(conflicts_of(cf, m1)) THEN FALSE
    ELSE IF m1 \in Range(conflicts_of(cf, m2)) THEN FALSE
    ELSE IF m1 \notin DOMAIN tm \/ m2 \notin DOMAIN tm THEN FALSE
    ELSE IF exit_blocked(L, cap, tm[m1]) \/ exit_blocked(L, cap, tm[m2]) THEN FALSE
    ELSE TRUE

\* ------------------------------------------------------------------------
\* Ambulance planner
\* ------------------------------------------------------------------------
\* G_req = max(min_green, min(max_green, Q / clearance_rate + margin))
compute_preclear_time(L, dest_lane) ==
    LET Q == lane_total(L, dest_lane)
        base == (30 * Q) \div clearance_rate
    IN  Max(min_green, Min(max_green, base + ambulance_safety_margin))

\* list.sort(key = t_a): a stable insertion sort
RECURSIVE insert_by_t_a(_, _)
insert_by_t_a(sorted, job) ==
    IF sorted = <<>> THEN <<job>>
    ELSE IF sorted[Len(sorted)].t_a <= job.t_a THEN Append(sorted, job)
    ELSE Append(insert_by_t_a(SubSeq(sorted, 1, Len(sorted) - 1), job),
                sorted[Len(sorted)])

RECURSIVE sort_by_t_a(_, _, _)
sort_by_t_a(jobs, i, acc) ==
    IF i > Len(jobs) THEN acc
    ELSE sort_by_t_a(jobs, i + 1, insert_by_t_a(acc, jobs[i]))

\* the first loop of plan_ambulances: one job per ambulance whose movement
\* has a destination
new_job(amb, dest, G_req) ==
    [amb |-> amb.id, mov |-> <<amb.lane, amb.mov>>, dest |-> dest,
     t_a |-> amb.eta, t_s |-> amb.eta - G_req, G |-> G_req]

RECURSIVE collect_jobs(_, _, _, _, _)
collect_jobs(ambs, i, tm, L, acc) ==
    IF i > Len(ambs) THEN acc
    ELSE IF <<ambs[i].lane, ambs[i].mov>> \notin DOMAIN tm
         THEN collect_jobs(ambs, i + 1, tm, L, acc)
    ELSE collect_jobs(ambs, i + 1, tm, L,
             Append(acc, new_job(ambs[i], tm[<<ambs[i].lane, ambs[i].mov>>],
                                 compute_preclear_time(L,
                                     tm[<<ambs[i].lane, ambs[i].mov>>]))))

with_start(job, start) ==
    [amb |-> job.amb, mov |-> job.mov, dest |-> job.dest, t_a |-> job.t_a,
     t_s |-> job.t_s, G |-> job.G, start |-> start]

\* the second loop of plan_ambulances
RECURSIVE schedule_jobs(_, _, _, _, _, _, _, _)
schedule_jobs(jobs, i, scheduled, t, cf, tm, L, cap) ==
    IF i > Len(jobs) THEN scheduled
    ELSE LET job == jobs[i]
             clash(sj) ==
                 /\ ~ (job.t_s + job.G <= sj.start \/ sj.start + sj.G <= job.t_s)
                 /\ ~ movements_compatible(cf, tm, L, cap, job.mov, sj.mov)
             conflict == \E k \in DOMAIN scheduled : clash(scheduled[k])
             start == IF job.t_s <= t + reaction_margin THEN t
                      ELSE IF ~ conflict THEN job.t_s
                      ELSE t
         IN  schedule_jobs(jobs, i + 1, Append(scheduled, with_start(job, start)),
                           t, cf, tm, L, cap)

plan_ambulances(ambs, t, cf, tm, L, cap) ==
    schedule_jobs(sort_by_t_a(collect_jobs(ambs, 1, tm, L, <<>>), 1, <<>>),
                  1, <<>>, t, cf, tm, L, cap)

\* ------------------------------------------------------------------------
\* Ambulance policy
\* ------------------------------------------------------------------------
\* the greedy loop over the running jobs
RECURSIVE ambulance_greens(_, _, _, _, _, _, _)
ambulance_greens(running, i, greens, cf, tm, L, cap) ==
    IF i > Len(running) THEN greens
    ELSE LET mv == running[i].mov
             ok == \A g \in Range(greens) : movements_compatible(cf, tm, L, cap, mv, g)
         IN  ambulance_greens(running, i + 1,
                              IF ok THEN Append(greens, mv) ELSE greens,
                              cf, tm, L, cap)

RECURSIVE max_G(_, _, _)
max_G(jobs, i, acc) ==
    IF i > Len(jobs) THEN acc
    ELSE max_G(jobs, i + 1, Max(acc, jobs[i].G))

\* running: the jobs whose window holds t, or else the imminent ones,
\* sorted by t_a
running_jobs(jobs, t) ==
    LET is_running(j) == j.start <= t /\ t <= j.start + j.G
        is_imminent(j) == j.start <= t + reaction_margin
    IN  IF SelectSeq(jobs, is_running) # <<>>
        THEN sort_by_t_a(SelectSeq(jobs, is_running), 1, <<>>)
        ELSE sort_by_t_a(SelectSeq(jobs, is_imminent), 1, <<>>)

\* "if not greens: greens = [running[0]['mov']]"
greens_or_first(running, greens0) ==
    IF greens0 = <<>> THEN <<running[1].mov>> ELSE greens0

\* max(G of the selected jobs, default = min_green)
policy_duration(selected_jobs) ==
    IF selected_jobs = <<>> THEN min_green
    ELSE max_G(selected_jobs, 2, selected_jobs[1].G)

policy_result(running, greens) ==
    LET selected(j) == j.mov \in Range(greens)
    IN  [applied |-> TRUE, greens |-> greens,
         G |-> policy_duration(SelectSeq(running, selected))]

policy_on(running, cf, tm, L, cap) ==
    IF running = <<>>
    THEN [applied |-> FALSE, greens |-> <<>>, G |-> min_green]
    ELSE policy_result(running,
             greens_or_first(running,
                 ambulance_greens(running, 1, <<>>, cf, tm, L, cap)))

\* apply_ambulance_policy up to the choice of greens and of the duration;
\* applied = FALSE is the early "return False"
apply_ambulance_policy(jobs, t, cf, tm, L, cap) ==
    policy_on(running_jobs(jobs, t), cf, tm, L, cap)

\* ------------------------------------------------------------------------
\* Scores
\* ------------------------------------------------------------------------
\* The double n * (1 + w * 0.4) is not always the double nearest to the
\* exact value n * (5 + 2 w) / 5, so two pairs (n, w) with the same exact
\* value can give different doubles.  float_offset(n, w) is the distance, in
\* units in the last place, of the computed double from the nearest one, for
\* n in 0..45 and w in 0..18 (IEEE-754 binary64, round to nearest even).
float_offset(n, w) ==
    CASE w = 1 ->
            IF n \in {3, 6, 7, 11, 12, 14, 17, 19, 22, 23, 24, 28, 29, 33, 34,
            38, 39, 43, 44, 45} THEN 0 - 1 ELSE 0
      [] w = 2 ->
            IF n \in {13, 21, 26, 31, 37, 42} THEN 1 ELSE 0
      [] w = 3 ->
            IF n \in {3, 6, 7, 11, 12, 14, 17, 19, 22, 24, 25, 27, 28, 29, 33,
            34, 38, 39, 43, 44, 45} THEN 1 ELSE 0
      [] w = 4 ->
            IF n \in {3, 6, 9, 12, 13, 18, 23, 24, 26, 31, 36, 41} THEN 1 ELSE
            0
      [] w = 6 ->
            IF n \in {1, 2, 3, 4, 6, 7, 8, 11, 12, 14, 15, 16, 17, 19, 22, 24,
            25, 27, 28, 29, 30, 32, 33, 34, 35, 37, 38, 39, 43, 44, 45} THEN 1
            ELSE 0
      [] w = 7 ->
            IF n \in {1, 2, 4, 8, 11, 13, 15, 16, 17, 21, 22, 26, 27, 30, 31,
            32, 34, 37, 39, 42, 44} THEN 1 ELSE 0
      [] w = 8 ->
            IF n \in {3, 6, 7, 9, 12, 14, 18, 23, 24, 28, 29, 31, 36, 41} THEN
            1 ELSE 0
      [] w = 9 ->
            IF n \in {3, 6, 7, 11, 12, 14, 17, 19, 22, 24, 25, 27, 28, 29, 33,
            34, 38, 39, 43, 44, 45} THEN 0 - 1 ELSE 0
      [] w = 11 ->
            IF n \in {3, 6, 7, 11, 12, 14, 17, 19, 22, 24, 28, 29, 33, 34, 38,
            39, 43, 44, 45} THEN 1 ELSE 0
      [] w = 12 ->
            IF n \in {1, 2, 3, 4, 5, 6, 7, 8, 10, 12, 14, 15, 16, 17, 19, 20,
            21, 24, 25, 27, 28, 29, 30, 32, 33, 34, 35, 37, 38, 39, 40, 41,
            42, 43, 45} THEN 1 ELSE IF n \in {11, 22, 44} THEN 2 ELSE 0
      [] w = 13 ->
            IF n \in {9, 13, 18, 21, 26, 31, 36, 41, 42} THEN 1 ELSE 0
      [] w = 14 ->
            IF n \in {1, 2, 4, 8, 9, 11, 13, 15, 16, 18, 21, 22, 26, 27, 30,
            31, 32, 35, 36, 37, 39, 42, 44} THEN 1 ELSE 0
      [] w = 16 ->
            IF n \in {3, 6, 7, 9, 12, 14, 17, 18, 23, 24, 28, 29, 33, 34, 36,
            41} THEN 1 ELSE 0
      [] w = 17 ->
            IF n \in {1, 2, 3, 4, 6, 7, 8, 11, 12, 14, 15, 16, 17, 19, 22, 24,
            25, 27, 28, 29, 30, 32, 33, 34, 38, 39, 43, 44, 45} THEN 1 ELSE 0
      [] w = 18 ->
            IF n \in {3, 6, 7, 11, 12, 14, 15, 17, 19, 22, 24, 25, 27, 28, 29,
            30, 33, 34, 38, 39, 43, 44, 45} THEN 0 - 1 ELSE 0
      [] OTHER -> 0

\* an integer that orders the doubles n * (1 + w * wait_boost) as Python
\* orders them, wait_boost = 0.4 (the product is odd in n)
score_key(n, w) ==
    LET pos(k) == 4 * (k * (5 + 2 * w)) + float_offset(k, w)
    IN  IF n >= 0 THEN pos(n) ELSE 0 - pos(0 - n)

\* the same for n * (1 + w * 0.4) + 10000: the addition rounds the doubles
\* of one exact value to one double
bonus_key(n, w) == 4 * (n * (5 + 2 * w) + 50000)

\* ------------------------------------------------------------------------
\* Ingestion (update, lines 258-264)
\* ------------------------------------------------------------------------
ingest_entry(L, entry) ==
    LET lane == entry.lane_id
    IN  [L EXCEPT ![lane] =
            [m \in MovSet |->
                [L[lane][m] EXCEPT
                    !.normal = IF m \in DOMAIN entry.movements
                               THEN entry.movements[m] ELSE L[lane][m].normal,
                    !.emergency = IF m \in DOMAIN entry.emergency
                                  THEN entry.emergency[m] ELSE 0]]]

RECURSIVE ingest(_, _, _)
ingest(L, snap, i) ==
    IF i > Len(snap) THEN L
    ELSE ingest(ingest_entry(L, snap[i]), snap, i + 1)

\* key order of the dict flat: first mention of each lane, movements in order
RECURSIVE flat_lanes(_, _, _)
flat_lanes(snap, i, acc) ==
    IF i > Len(snap) THEN acc
    ELSE flat_lanes(snap, i + 1,
                    IF snap[i].lane_id \in Range(acc) THEN acc
                    ELSE Append(acc, snap[i].lane_id))

\* flat as it stands after the ingestion loop.  A lane listed twice gets its
\* flat entry from the later listing, built from self.lanes as it then is.
RECURSIVE build_flat_val(_, _, _, _)
build_flat_val(L, snap, i, acc) ==
    IF i > Len(snap) THEN acc
    ELSE LET L1 == ingest_entry(L, snap[i])
             lane == snap[i].lane_id
             here == [k \in {<<lane, m>> : m \in MovSet} |->
                         [normal |-> L1[lane][k[2]].normal,
                          emergency |-> L1[lane][k[2]].emergency,
                          wait |-> L1[lane][k[2]].wait]]
         IN  build_flat_val(L1, snap, i + 1, here @@ acc)

build_flat(L, snap) ==
    [keys |-> KeySeq(flat_lanes(snap, 1, <<>>)),
     val  |-> build_flat_val(L, snap, 1, EmptyFn)]

\* ------------------------------------------------------------------------
\* Choosers
\* ------------------------------------------------------------------------
RECURSIVE max_emergency(_, _, _)
max_emergency(flat, ks, i) ==
    IF i > Len(ks) THEN 0
    ELSE Max(flat.val[ks[i]].emergency, max_emergency(flat, ks, i + 1))

\* tied_at without the comparison with max_count
tied_at_any(flat, emergencies, max_count) == emergencies

\* tied = the keys of flat, in flat order, that hold the largest emergency
tied_at(flat, emergencies, max_count) ==
    LET is_max(k) == flat.val[k].emergency = max_count
    IN  SelectSeq(emergencies, is_max)

tied_emergencies(flat, emergencies) ==
    tied_at(flat, emergencies, max_emergency(flat, emergencies, 1))

\* the keys in the order the round-robin loop visits them: lanes from
\* position start, cyclically, movements in order
round_robin_scan(order, start) ==
    [j \in 1..(3 * Len(order)) |->
        <<order[((start + ((j - 1) \div 3)) % Len(order)) + 1],
          movements[((j - 1) % 3) + 1]>>]

round_robin_start(order, last) ==
    IF last \in Range(order) THEN IndexOf(order, last) % Len(order) ELSE 0

first_tied(tied, found) == IF found = <<>> THEN tied[1] ELSE found[1]

emergency_result(tied, order, last) ==
    LET in_tied(k) == k \in Range(tied)
    IN  IF Len(tied) = 1 THEN [chosen |-> tied[1], last |-> last]
        ELSE [chosen |-> first_tied(tied,
                             SelectSeq(round_robin_scan(order,
                                           round_robin_start(order, last)), in_tied)),
              last |-> first_tied(tied,
                             SelectSeq(round_robin_scan(order,
                                           round_robin_start(order, last)), in_tied))[1]]

\* choose_emergency_movement: the chosen key (NoKey when no emergency) and the
\* value of last_emergency_lane when it returns
choose_emergency_movement(flat, order, last) ==
    LET has(k) == flat.val[k].emergency > 0
    IN  IF SelectSeq(flat.keys, has) = <<>> THEN [chosen |-> NoKey, last |-> last]
        ELSE emergency_result(tied_emergencies(flat, SelectSeq(flat.keys, has)),
                              order, last)

\* the score of a key when waiting earns no bonus
normal_score_no_bonus(flat, tm, L, cap, key) ==
    LET n == IF key \in DOMAIN flat.val THEN flat.val[key].normal ELSE 0
        w == IF key \in DOMAIN flat.val THEN flat.val[key].wait ELSE 0
        dest == IF key \in DOMAIN tm THEN tm[key] ELSE key[1]
    IN  IF exit_blocked(L, cap, dest) THEN 0 - 2000000000
        ELSE score_key(n, w)

\* the score choose_normal_movement gives a key
normal_score(flat, tm, L, cap, key) ==
    LET n == IF key \in DOMAIN flat.val THEN flat.val[key].normal ELSE 0
        w == IF key \in DOMAIN flat.val THEN flat.val[key].wait ELSE 0
        dest == IF key \in DOMAIN tm THEN tm[key] ELSE key[1]
    IN  IF exit_blocked(L, cap, dest) THEN 0 - 2000000000
        ELSE IF w >= starvation_limit THEN bonus_key(n, w)
        ELSE score_key(n, w)

\* max(scores, key = scores.get): the first key, in iteration order, whose
\* score is the largest.  Not defined on an empty order (the code raises).
first_max(ks, scores) ==
    ks[CHOOSE i \in DOMAIN ks :
           /\ \A j \in DOMAIN ks : scores[j] <= scores[i]
           /\ \A j \in 1..(i - 1) : scores[j] < scores[i]]

scores_over(ks, flat, tm, L, cap) ==
    [i \in DOMAIN ks |-> normal_score(flat, tm, L, cap, ks[i])]

choose_normal_movement(flat, order, tm, L, cap) ==
    first_max(KeySeq(order), scores_over(KeySeq(order), flat, tm, L, cap))

\* the green of a movement when only the lower bound is applied
calculate_green_no_ceiling(L, key) ==
    LET base_time == 24 * L[key[1]][key[2]].normal + 60 * L[key[1]][key[2]].emergency
    IN  Max(min_green, base_time)

calculate_green_for_movement(L, key) ==
    LET base_time == 24 * L[key[1]][key[2]].normal + 60 * L[key[1]][key[2]].emergency
    IN  Max(min_green, Min(base_time, max_green))

\* ------------------------------------------------------------------------
\* Co-phase builder (update, lines 295-303)
\* ------------------------------------------------------------------------
\* the candidates ranked by the cycles they have waited alone
candidate_key_by_wait(flat, k) == flat.val[k].wait

candidate_key(flat, k) == score_key(flat.val[k].normal, flat.val[k].wait)

\* sorted(flat.keys(), key = -score): stable, largest score first
RECURSIVE insert_candidate(_, _, _)
insert_candidate(flat, sorted, k) ==
    IF sorted = <<>> THEN <<k>>
    ELSE IF candidate_key(flat, sorted[Len(sorted)]) >= candidate_key(flat, k)
         THEN Append(sorted, k)
    ELSE Append(insert_candidate(flat, SubSeq(sorted, 1, Len(sorted) - 1), k),
                sorted[Len(sorted)])

RECURSIVE sort_candidates(_, _, _)
sort_candidates(flat, i, acc) ==
    IF i > Len(flat.keys) THEN acc
    ELSE sort_candidates(flat, i + 1, insert_candidate(flat, acc, flat.keys[i]))

\* the size at which the loop stops: max(1, len(self.lanes) // 2)
cophase_limit(order) == Max(1, Len(order) \div 2)

\* the loop "for lane_mov in candidates": the seed is skipped by "continue",
\* the size test follows the append
extend_cophase(chosen_set, cand, cf, tm, L, cap) ==
    IF \A c \in Range(chosen_set) : movements_compatible(cf, tm, L, cap, cand, c)
    THEN Append(chosen_set, cand)
    ELSE chosen_set

RECURSIVE build_cophase(_, _, _, _, _, _, _, _, _)
RECURSIVE cophase_next(_, _, _, _, _, _, _, _, _)
build_cophase(cands, i, chosen_set, chosen_norm, order, cf, tm, L, cap) ==
    IF i > Len(cands) THEN chosen_set
    ELSE IF cands[i] = chosen_norm
         THEN build_cophase(cands, i + 1, chosen_set, chosen_norm, order, cf, tm, L, cap)
    ELSE cophase_next(cands, i, extend_cophase(chosen_set, cands[i], cf, tm, L, cap),
                      chosen_norm, order, cf, tm, L, cap)

\* "if len(chosen_set) >= max(1, len(self.lanes) // 2): break"
cophase_next(cands, i, next_set, chosen_norm, order, cf, tm, L, cap) ==
    IF Len(next_set) >= cophase_limit(order) THEN next_set
    ELSE build_cophase(cands, i + 1, next_set, chosen_norm, order, cf, tm, L, cap)

\* ------------------------------------------------------------------------
\* Flow model
\* ------------------------------------------------------------------------
\* the clearance when the rate per second is applied to every tick
clearance_per_tick(green_time) == clearance_rate * green_time

\* int(self.clearance_rate * green_time), green_time in ticks
clearance(green_time) == (clearance_rate * green_time) \div 30

data_total(data, lane) ==
    LET q(m) == data[<<lane, m>>].normal + data[<<lane, m>>].emergency
    IN  q(movements[1]) + q(movements[2]) + q(movements[3])

\* lines 233-238 for one active key, on data after the key's queue was cut
\* by cleared: nothing is pushed when the destination fails "if dest:";
\* ok = FALSE when the destination is missing from data (KeyError)
push_to_dest(d1, key, cleared, tm, cap) ==
    IF key \notin DOMAIN tm \/ ~ truthy(tm[key]) THEN [ok |-> TRUE, data |-> d1]
    ELSE IF \E m \in MovSet : <<tm[key], m>> \notin DOMAIN d1
         THEN [ok |-> FALSE, data |-> d1]
    ELSE [ok |-> TRUE,
          data |-> [d1 EXCEPT ![<<tm[key], "straight">>].normal =
                       @ + Min(cleared,
                               Max(0, cap[tm[key]] - data_total(d1, tm[key])))]]

\* flow_one without the two clamps: the clearance of a minimal green leaves
\* the queue, whatever the queue holds
flow_one_unclamped(data, key, cleared, tm, cap) ==
    push_to_dest([data EXCEPT ![key].normal = @ - clearance(min_green)],
                 key, cleared, tm, cap)

\* lines 230-238 for one active key
flow_one(data, key, cleared, tm, cap) ==
    push_to_dest([data EXCEPT ![key].normal = Max(0, @ - cleared)],
                 key, cleared, tm, cap)

\* the loop over active_movements; ok = FALSE when a key is missing from
\* data (KeyError)
RECURSIVE flow_active(_, _, _, _, _, _)
RECURSIVE flow_active_next(_, _, _, _, _, _)
flow_active(data, active, i, green_time, tm, cap) ==
    IF i > Len(active) THEN [ok |-> TRUE, data |-> data]
    ELSE IF active[i] \notin DOMAIN data THEN [ok |-> FALSE, data |-> data]
    ELSE flow_active_next(
             flow_one(data, active[i],
                      Min(data[active[i]].normal, clearance(green_time)), tm, cap),
             active, i, green_time, tm, cap)

flow_active_next(r, active, i, green_time, tm, cap) ==
    IF ~ r.ok THEN r
    ELSE flow_active(r.data, active, i + 1, green_time, tm, cap)

\* the loop over every movement that is not active; draws[k] is the value of
\* the k-th call of random.randint(0, 3)
RECURSIVE flow_arrivals(_, _, _, _, _, _)
flow_arrivals(data, ks, i, active, draws, k) ==
    IF i > Len(ks) THEN [ok |-> TRUE, data |-> data]
    ELSE IF ks[i] \in Range(active)
         THEN flow_arrivals(data, ks, i + 1, active, draws, k)
    ELSE IF ks[i] \notin DOMAIN data THEN [ok |-> FALSE, data |-> data]
    ELSE flow_arrivals([data EXCEPT ![ks[i]].normal = @ + draws[k]],
                       ks, i + 1, active, draws, k + 1)

flow_then_arrivals(a, active, order, draws) ==
    IF ~ a.ok THEN a
    ELSE flow_arrivals(a.data, KeySeq(order), 1, active, draws, 1)

simulate_flow(data, active, green_time, order, tm, cap, draws) ==
    flow_then_arrivals(flow_active(data, active, 1, green_time, tm, cap),
                       active, order, draws)

\* update_waits without the increment of the movements left out
update_waits_no_increment(L, chosen) ==
    [lane \in DOMAIN L |->
        [m \in MovSet |->
            [L[lane][m] EXCEPT !.wait = IF <<lane, m>> \in Range(chosen)
                                        THEN 0 ELSE @]]]

update_waits(L, chosen) ==
    [lane \in DOMAIN L |->
        [m \in MovSet |->
            [L[lane][m] EXCEPT !.wait = IF <<lane, m>> \in Range(chosen)
                                        THEN 0 ELSE @ + 1]]]

\* set_lights without the reset to RED: the G bit is added to the vector
set_lights_no_reset(L, greens) ==
    [lane \in DOMAIN L |->
        [m \in MovSet |->
            [L[lane][m] EXCEPT !.state = IF <<lane, m>> \in Range(greens)
                                         THEN <<1, 0, 1>> ELSE @]]]

\* "for L in self.lanes: ... state = [1,0,0]", then GREEN on the chosen keys
set_lights(L, greens) ==
    [lane \in DOMAIN L |->
        [m \in MovSet |->
            [L[lane][m] EXCEPT !.state = IF <<lane, m>> \in Range(greens)
                                         THEN GREEN ELSE RED]]]

\* "for (lane, mov) in flat.keys(): self.lanes[lane][mov]['normal'] = flat[...]"
commit_flat(L, data) ==
    [lane \in DOMAIN L |->
        [m \in MovSet |->
            [L[lane][m] EXCEPT !.normal = IF <<lane, m>> \in DOMAIN data
                                          THEN data[<<lane, m>>].normal ELSE @]]]

\* the mapping update returns
light_mapping(L) == [lane \in DOMAIN L |-> [m \in MovSet |-> L[lane][m].state]]

\* ------------------------------------------------------------------------
\* update: the decision (lines 253-266, 276-279, 294-305)
\* ------------------------------------------------------------------------
\* max(Gs) over the co-phase set
RECURSIVE max_green_of(_, _, _)
max_green_of(L, chosen_set, i) ==
    IF i > Len(chosen_set) THEN 0
    ELSE Max(calculate_green_for_movement(L, chosen_set[i]),
             max_green_of(L, chosen_set, i + 1))

\* lines 294-305: seed, co-phase set and duration of a NORMAL phase
normal_phase(b, chosen_set) ==
    b @@ [kind |-> "normal_multi", movs |-> chosen_set,
          G |-> IF chosen_set = <<>> THEN min_green
                ELSE max_green_of(b.L, chosen_set, 1)]

normal_from_seed(b, chosen_norm) ==
    normal_phase(b, build_cophase(sort_candidates(b.flat, 1, <<>>), 1, <<chosen_norm>>,
                                  chosen_norm, b.order, b.cf, b.tm, b.L, b.cap))

\* lines 276-294: the emergency phase, or else the normal one; kind =
\* "ValueError" is the max() of choose_normal_movement over no key at all
emergency_or_normal(b, em) ==
    IF em.chosen # NoKey
    THEN [b EXCEPT !.last = em.last]
         @@ [kind |-> "emergency", movs |-> <<em.chosen>>,
             G |-> calculate_green_for_movement(b.L, em.chosen)]
    ELSE IF b.order = <<>>
    THEN b @@ [kind |-> "ValueError", movs |-> <<>>, G |-> min_green]
    ELSE normal_from_seed(b, choose_normal_movement(b.flat, b.order, b.tm, b.L, b.cap))

\* choose_phase with the emergency test placed before the ambulance policy
choose_phase_emergency_first(b, amb) ==
    IF amb.applied
       /\ choose_emergency_movement(b.flat, b.order, b.last).chosen = NoKey
    THEN b @@ [kind |-> "ambulance_multi", movs |-> amb.greens, G |-> amb.G]
    ELSE emergency_or_normal(b,
             choose_emergency_movement(b.flat, b.order, b.last))

\* lines 266-276: the ambulance phase when the policy applies
choose_phase(b, amb) ==
    IF amb.applied
    THEN b @@ [kind |-> "ambulance_multi", movs |-> amb.greens, G |-> amb.G]
    ELSE emergency_or_normal(b,
             choose_emergency_movement(b.flat, b.order, b.last))

\* line 265-266
plan_and_choose(b, jobs, t) ==
    choose_phase(b @@ [jobs |-> jobs],
                 apply_ambulance_policy(jobs, t, b.cf, b.tm, b.L, b.cap))

decide_ingested(b, t) ==
    plan_and_choose(b, plan_ambulances(ambulances, t, b.cf, b.tm, b.L, b.cap), t)

\* lines 257-264
decide_turn_map(c1, tm1, snap, t) ==
    decide_ingested([order |-> c1.order, cap |-> c1.cap, tm |-> tm1,
                     cf |-> rebuild_conflicts(c1.order, tm1),
                     L |-> ingest(c1.lanes, snap, 1),
                     flat |-> build_flat(c1.lanes, snap),
                     last |-> last_emergency_lane], t)

\* line 256
decide_lanes(c1, snap, t) ==
    decide_turn_map(c1, rebuild_turn_map(c1.order, turn_map), snap, t)

\* everything update computes before it touches the lights: the topology,
\* the ingested queues, the planned jobs and the phase it will activate
decide(snap, t) ==
    decide_lanes(ensure_lanes([lanes |-> lanes, order |-> lane_order,
                               cap |-> exit_capacity], snap, 1), snap, t)

\* ------------------------------------------------------------------------
\* Actions
\* ------------------------------------------------------------------------
\* self.lanes when update ends: at the ValueError nothing but the ingestion
\* was done; at a KeyError of simulate_flow the lights are set and neither
\* the waits nor flat were written back
lanes_after(d, lit, flow) ==
    IF d.kind = "ValueError" THEN d.L
    ELSE IF ~ flow.ok THEN lit
    ELSE commit_flat(update_waits(lit, d.movs), flow.data)

outcome_of(d, flow) ==
    IF d.kind = "ValueError" THEN "ValueError"
    ELSE IF ~ flow.ok THEN "KeyError"
    ELSE "returned"

\* the history of refusals after an update: a movement is refused when the
\* update returned, the movement had normal > 0 and an unblocked destination
\* when the phase was chosen, and its light is not GREEN
denied_after(d, outcome) ==
    [k \in {<<lane, m>> : lane \in DOMAIN d.L, m \in MovSet} |->
        IF /\ outcome = "returned"
           /\ d.L[k[1]][k[2]].normal > 0
           /\ ~ exit_blocked(d.L, d.cap, d.tm[k])
           /\ k \notin Range(d.movs)
        THEN (IF k \in DOMAIN denied THEN denied[k] ELSE 0) + 1
        ELSE 0]

finish_update(d, lanes1, outcome, t) ==
    /\ \A lane \in DOMAIN lanes1 : \A m \in MovSet :
           /\ lanes1[lane][m].normal <= MaxNormal
           /\ lanes1[lane][m].wait <= MaxWait
    /\ lanes' = lanes1
    /\ lane_order' = d.order
    /\ exit_capacity' = d.cap
    /\ turn_map' = d.tm
    /\ conflicts' = d.cf
    /\ planned_ambulance_jobs' = d.jobs
    /\ last_emergency_lane' = d.last
    /\ IF d.kind = "ValueError"
       THEN UNCHANGED <<current_green, green_started_at, current_green_time>>
       ELSE /\ current_green' = [kind |-> d.kind, movs |-> d.movs]
            /\ green_started_at' = t
            /\ current_green_time' = d.G
    /\ last_call' = [op |-> "update", outcome |-> outcome,
                     value |-> IF outcome = "returned" THEN light_mapping(lanes1)
                               ELSE EmptyFn]
    /\ pre' = d.L
    /\ flat0' = d.flat
    /\ now' = t
    /\ calls' = calls + 1
    /\ denied' = denied_after(d, outcome)
    /\ UNCHANGED <<ambulances, first_green_at>>

run_cycle(d, lit, flow, t) ==
    finish_update(d, lanes_after(d, lit, flow), outcome_of(d, flow), t)

activate(d, t, draws) ==
    run_cycle(d, set_lights(d.L, d.movs),
              simulate_flow(d.flat.val, d.movs, d.G, d.order, d.tm, d.cap, draws), t)

\* update(camera_input) with the clock reading t and the random draws
update(snap, t, draws) == activate(decide(snap, t), t, draws)

\* register_ambulance(amb_id, lane, mov, eta_seconds) with the clock reading t
register(amb_id, lane, mov, eta_seconds, t) ==
    /\ ambulances' = register_ambulance(ambulances, amb_id, lane, mov, eta_seconds, t)
    /\ last_call' = [op |-> "register_ambulance", outcome |-> "returned",
                     value |-> EmptyFn]
    /\ now' = t
    /\ calls' = calls + 1
    /\ UNCHANGED <<lanes, lane_order, exit_capacity, turn_map, conflicts,
                   planned_ambulance_jobs, current_green, green_started_at,
                   current_green_time, last_emergency_lane, pre, flat0, denied,
                   first_green_at>>

\* ------------------------------------------------------------------------
\* Inputs
\* ------------------------------------------------------------------------
\* what one snapshot entry can report about its lane: nothing, a queue, a
\* queue that fills the lane up to its exit margin, emergency vehicles on two
\* of its movements
Profiles ==
    << [movements |-> EmptyFn, emergency |-> EmptyFn],
       [movements |-> ("straight" :> 5) @@ ("left" :> 1), emergency |-> EmptyFn],
       [movements |-> ("straight" :> 18), emergency |-> EmptyFn],
       [movements |-> ("right" :> 2),
        emergency |-> ("left" :> 1) @@ ("right" :> 2)] >>

entry(lane, p) ==
    [lane_id |-> lane, movements |-> p.movements, emergency |-> p.emergency]

\* A snapshot lists the lanes 1..k (a lane not yet known is named by the
\* position it will take in self.lanes).  In a staggered snapshot lane i
\* reports profile i + r (cyclically), in a uniform one every lane reports
\* profile r.
staggered(k, r) ==
    [i \in 1..k |-> entry(i, Profiles[((i + r) % Len(Profiles)) + 1])]

uniform(k, r) == [i \in 1..k |-> entry(i, Profiles[r])]

StaggeredSnapshots ==
    {staggered(k, r) : k \in 0..MaxLanes, r \in 1..Len(Profiles)}

UniformSnapshots ==
    {uniform(k, r) : k \in 0..MaxLanes, r \in 1..Len(Profiles)}

\* the results of the successive calls of random.randint(0, 3) in one update
Draws ==
    { [i \in 1..(3 * MaxLanes) |-> 0],
      [i \in 1..(3 * MaxLanes) |-> i % 4] }

\* a cycle lasts 2 s; a registration follows the previous call within a tick
CycleTicks == {60}

\* eta_seconds of a registration: 2.1 s and 20 s
EtaChoices == {63, 600}

\* an ambulance is named by the order of its first registration
AmbulanceIds == 1..Min(MaxAmbulances, Len(ambulances) + 1)

\* where an ambulance is announced: two movements of one lane (they share
\* their lane) and one of another lane
AmbulanceRoutes == {<<1, "straight">>, <<1, "left">>, <<2, "straight">>}

\* ------------------------------------------------------------------------
\* Specifications
\* ------------------------------------------------------------------------
UpdateStep ==
    /\ calls < MaxCalls
    /\ \E snap \in StaggeredSnapshots : \E step \in CycleTicks : \E draws \in Draws :
           update(snap, now + step, draws)

RegisterStep ==
    /\ calls < MaxCalls
    /\ \E amb_id \in AmbulanceIds : \E route \in AmbulanceRoutes :
           \E eta \in EtaChoices :
               register(amb_id, route[1], route[2], eta, now)

Next == UpdateStep \/ RegisterStep

\* snapshots and registrations in any order
Spec == Init /\ [][Next]_vars

TrafficStep ==
    /\ calls < MaxCalls
    /\ \E snap \in StaggeredSnapshots \cup UniformSnapshots :
           \E step \in CycleTicks : \E draws \in Draws :
               update(snap, now + step, draws)

\* snapshots only, no ambulance
SpecTraffic == Init /\ [][TrafficStep]_vars

\* eta_seconds of an ambulance: 2.1 s, 2.5 s (at the next cycle it arrives
\* exactly reaction_margin later) and 20 s
AmbulanceEtaChoices == {63, 75, 600}

\* in a snapshot with r = 1 the first lane is full; with r = 3 no lane is
AmbulanceSnapshots == {staggered(k, r) : k \in 0..MaxLanes, r \in {1, 3}}

AmbulanceUpdateStep ==
    /\ calls < MaxCalls
    /\ \E snap \in AmbulanceSnapshots : \E step \in CycleTicks : \E draws \in Draws :
           update(snap, now + step, draws)

AmbulanceRegisterStep ==
    /\ calls < MaxCalls
    /\ \E amb_id \in AmbulanceIds : \E route \in AmbulanceRoutes :
           \E eta \in AmbulanceEtaChoices :
               register(amb_id, route[1], route[2], eta, now)

\* ambulances of several arrival times in little traffic
SpecAmbulance == Init /\ [][AmbulanceUpdateStep \/ AmbulanceRegisterStep]_vars

\* one lane observed cycle after cycle: a vehicle waits to go straight while
\* an emergency vehicle is reported on the left turn, or while two vehicles
\* wait on the left turn
FairProfiles ==
    << [movements |-> ("straight" :> 1) @@ ("left" :> 0) @@ ("right" :> 0),
        emergency |-> ("left" :> 1)],
       [movements |-> ("straight" :> 1) @@ ("left" :> 2) @@ ("right" :> 0),
        emergency |-> EmptyFn] >>

FairSnapshots == {<<entry(1, FairProfiles[r])>> : r \in 1..Len(FairProfiles)}

FairStep ==
    /\ calls < MaxFairCycles
    /\ \E snap \in FairSnapshots : \E step \in CycleTicks : \E draws \in Draws :
           update(snap, now + step, draws)

\* a long run of cycles on one lane
SpecFair == Init /\ [][FairStep]_vars

\* eta_seconds of an ambulance that is almost there: 0.1 s and 2.1 s
ExpiryEtaChoices == {3, 63}

ExpiryUpdateStep ==
    /\ calls < MaxCalls
    /\ \E snap \in AmbulanceSnapshots : \E step \in CycleTicks : \E draws \in Draws :
           update(snap, now + step, draws)

ExpiryRegisterStep ==
    /\ calls < MaxCalls
    /\ \E amb_id \in AmbulanceIds : \E route \in AmbulanceRoutes :
           \E eta \in ExpiryEtaChoices :
               register(amb_id, route[1], route[2], eta, now)

\* ambulances whose arrival time passes while the cycles go on
SpecExpiry == Init /\ [][ExpiryUpdateStep \/ ExpiryRegisterStep]_vars

\* two lanes observed cycle after cycle, every movement reported: a vehicle
\* waits to go straight on lane 1 while lane 2 reports a queue of 100 (lane 2
\* is then full, and it is the destination of every movement of lane 1), or
\* while longer queues wait on the two turns of lane 1
quantities(s, l, r) == ("straight" :> s) @@ ("left" :> l) @@ ("right" :> r)

StarveSnapshots ==
    { << entry(1, [movements |-> quantities(1, 0, 0), emergency |-> EmptyFn]),
         entry(2, [movements |-> quantities(100, 0, 0), emergency |-> EmptyFn]) >>,
      << entry(1, [movements |-> quantities(1, 10, 2), emergency |-> EmptyFn]),
         entry(2, [movements |-> quantities(0, 0, 0), emergency |-> EmptyFn]) >> }

StarveStep ==
    /\ calls < MaxStarveCycles
    /\ \E snap \in StarveSnapshots : \E step \in CycleTicks : \E draws \in Draws :
           update(snap, now + step, draws)

\* a long run of cycles on two lanes, no ambulance and no emergency
SpecStarve == Init /\ [][StarveStep]_vars

\* what a faulty detector can report about a lane: negative counts
MalformedProfiles ==
    << [movements |-> ("straight" :> 0 - 3) @@ ("left" :> 2),
        emergency |-> ("left" :> 0 - 1)],
       [movements |-> ("right" :> 0 - 1), emergency |-> EmptyFn] >>

\* lane 1 reports negative counts, the lanes after it report profile r + 1
malformed(k, r) ==
    [i \in 1..k |-> entry(i, IF i = 1 THEN MalformedProfiles[r]
                             ELSE Profiles[r + 1])]

MalformedSnapshots ==
    {malformed(k, r) : k \in 1..MaxLanes, r \in 1..Len(MalformedProfiles)}
        \cup AmbulanceSnapshots

MalformedStep ==
    /\ calls < MaxCalls
    /\ \E snap \in MalformedSnapshots : \E step \in CycleTicks : \E draws \in Draws :
           update(snap, now + step, draws)

\* snapshots of which some carry negative counts, no ambulance
SpecMalformed == Init /\ [][MalformedStep]_vars

\* four lanes: lanes 1 and 3 report the queues q1 and q3 of their straight
\* movements, lane 2 reports l2 vehicles on its left turn when l2 > 0, and
\* what is not reported keeps the count the last cycle left
crossing(q1, q3, l2) ==
    << entry(1, [movements |-> ("straight" :> q1), emergency |-> EmptyFn]),
       entry(2, [movements |-> IF l2 > 0 THEN ("left" :> l2) ELSE EmptyFn,
                 emergency |-> EmptyFn]),
       entry(3, [movements |-> ("straight" :> q3), emergency |-> EmptyFn]),
       entry(4, [movements |-> EmptyFn, emergency |-> EmptyFn]) >>

\* queues of one vehicle, of a few vehicles, and queues that fill their lane
CophaseQueues == {<<1, 1>>, <<5, 4>>, <<18, 18>>}

CophaseSnapshots == {crossing(q[1], q[2], l2) : q \in CophaseQueues, l2 \in {0, 3}}

\* one draw for each movement of each lane of the crossing
CophaseDraws ==
    { [i \in 1..(3 * Len(crossing(1, 1, 0))) |-> 0],
      [i \in 1..(3 * Len(crossing(1, 1, 0))) |-> i % 4] }

CophaseStep ==
    /\ calls < MaxCalls
    /\ \E snap \in CophaseSnapshots : \E step \in CycleTicks :
           \E draws \in CophaseDraws :
               update(snap, now + step, draws)

\* a crossing of four lanes, no ambulance and no emergency
SpecCophase == Init /\ [][CophaseStep]_vars

\* a crossing that grows: a snapshot lists the first k lanes, up to
\* MaxCrossingLanes, so that a later snapshot can add lanes to those known
GrowingSnapshots == {staggered(k, r) : k \in 0..MaxCrossingLanes, r \in {1, 3}}

GrowingDraws ==
    { [i \in 1..(3 * MaxCrossingLanes) |-> 0],
      [i \in 1..(3 * MaxCrossingLanes) |-> i % 4] }

\* the same crossings when the first lane is identified by the empty string
unnamed_first(snap) ==
    [i \in DOMAIN snap |->
        IF snap[i].lane_id = 1 THEN entry(Unnamed, snap[i]) ELSE snap[i]]

\* three lanes of which the second turns left and the third goes straight
\* into the first, the lane without a name
meeting ==
    << entry(Unnamed, Profiles[1]),
       entry(2, [movements |-> ("left" :> 5), emergency |-> EmptyFn]),
       entry(3, [movements |-> ("straight" :> 4), emergency |-> EmptyFn]) >>

UnnamedSnapshots ==
    {unnamed_first(snap) : snap \in GrowingSnapshots} \cup {meeting}

UnnamedStep ==
    /\ calls < MaxCalls
    /\ \E snap \in UnnamedSnapshots : \E step \in CycleTicks :
           \E draws \in GrowingDraws :
               update(snap, now + step, draws)

\* crossings of every size with a lane whose identifier is empty
SpecUnnamed == Init /\ [][UnnamedStep]_vars

\* ------------------------------------------------------------------------
\* The single-movement controller (algorithm.py, class DynamicTrafficController)
\* ------------------------------------------------------------------------
\* Its fields are held in the variables of the same names: lanes is
\* lane -> [normal, emergency, wait, state], lane_order is self.lane_ids,
\* current_green is a lane (NoLane for None), green_started_at is 0 for None.
\* Its parameters have the values of the constants above (min_green 3 s,
\* max_green 15 s, wait_boost 0.4, starvation_limit 8, clearance_rate 3).

\* the state after DynamicTrafficController(N) with N = MaxLanes
InitSingle ==
    /\ lanes = [lane \in 1..MaxLanes |->
                   [normal |-> 0, emergency |-> 0, wait |-> 0, state |-> RED]]
    /\ lane_order = [i \in 1..MaxLanes |-> i]
    /\ current_green = NoLane
    /\ green_started_at = 0
    /\ current_green_time = min_green
    /\ last_emergency_lane = NoLane
    /\ first_green_at = 0
    /\ now = 0
    /\ last_call = [op |-> "init", outcome |-> "returned", value |-> EmptyFn]
    /\ pre = EmptyFn
    /\ calls = 0
    /\ exit_capacity = EmptyFn
    /\ turn_map = EmptyFn
    /\ conflicts = EmptyFn
    /\ ambulances = <<>>
    /\ planned_ambulance_jobs = <<>>
    /\ flat0 = EmptyFlat
    /\ denied = EmptyFn

\* the dict data of update: the lanes of the snapshot, a later entry of a
\* lane replacing an earlier one, with the wait counters of self.lanes
data_of(snap, L) ==
    [lane \in {snap[i].lane_id : i \in DOMAIN snap} |->
        LET i == CHOOSE i \in DOMAIN snap :
                     /\ snap[i].lane_id = lane
                     /\ \A j \in DOMAIN snap : snap[j].lane_id = lane => j <= i
        IN  [normal |-> snap[i].normal, emergency |-> snap[i].emergency,
             wait |-> L[lane].wait]]

\* the keys of data in their order: the first mention of each lane
RECURSIVE data_keys(_, _, _)
data_keys(snap, i, acc) ==
    IF i > Len(snap) THEN acc
    ELSE data_keys(snap, i + 1,
                   IF snap[i].lane_id \in Range(acc) THEN acc
                   ELSE Append(acc, snap[i].lane_id))

RECURSIVE max_count(_, _, _)
max_count(data, emergencies, i) ==
    IF i > Len(emergencies) THEN 0
    ELSE Max(data[emergencies[i]].emergency, max_count(data, emergencies, i + 1))

\* tied = the lanes of emergencies that report the largest emergency count
tied_lanes(data, emergencies) ==
    LET is_max(l) == data[l].emergency = max_count(data, emergencies, 1)
    IN  SelectSeq(emergencies, is_max)

\* the lanes in the order the round-robin loop visits them
lane_scan(ids, last) ==
    LET start == IF last \in Range(ids) THEN IndexOf(ids, last) % Len(ids) ELSE 0
    IN  [j \in 1..Len(ids) |-> ids[((start + (j - 1)) % Len(ids)) + 1]]

round_robin_lane(tied, ids, last) ==
    LET in_tied(l) == l \in Range(tied)
        found == SelectSeq(lane_scan(ids, last), in_tied)
    IN  IF Len(tied) = 1 THEN tied[1]
        ELSE IF found = <<>> THEN tied[1]
        ELSE found[1]

\* _choose_emergency_lane: the lane it returns, NoLane for None; it stores
\* the lane it returns in last_emergency_lane unless it returns None
_choose_emergency_lane(data, keys, ids, last) ==
    LET has(l) == data[l].emergency > 0
    IN  IF SelectSeq(keys, has) = <<>> THEN NoLane
        ELSE round_robin_lane(tied_lanes(data, SelectSeq(keys, has)), ids, last)

\* an integer that orders the scores n * (1 + w * wait_boost), with 1000
\* added when w >= starvation_limit, as Python orders the doubles
lane_score(n, w) ==
    IF w >= starvation_limit THEN 4 * (n * (5 + 2 * w) + 5000)
    ELSE score_key(n, w)

_choose_normal_lane(data, ids) ==
    first_max(ids, [i \in DOMAIN ids |->
                       lane_score(data[ids[i]].normal, data[ids[i]].wait)])

_calculate_green_time(lane_data) ==
    LET base_time == 24 * lane_data.normal + 60 * lane_data.emergency
    IN  Max(min_green, Min(base_time, max_green))

_update_waits(L, chosen) ==
    [lane \in DOMAIN L |->
        [L[lane] EXCEPT !.wait = IF lane = chosen THEN 0 ELSE @ + 1]]

\* the lights _apply_yellow leaves: YELLOW on to_green is replaced by GREEN
\* before it returns
_apply_yellow(L, to_green) ==
    [lane \in DOMAIN L |->
        [L[lane] EXCEPT !.state = IF lane = to_green THEN GREEN ELSE RED]]

\* data after _simulate_flow: the chosen lane is cleared, every other lane of
\* self.lane_ids receives the next draw of random.randint(0, 3)
_simulate_flow(data, ids, chosen, green_time, draws) ==
    [lane \in DOMAIN data |->
        [data[lane] EXCEPT !.normal =
            IF lane = chosen THEN @ - Min(@, clearance(green_time))
            ELSE @ + draws[Cardinality({j \in 1..IndexOf(ids, lane) :
                                           ids[j] # chosen})]]]

\* step 2 of update: the lane opened when no lane reports an emergency
keep_or_choose(data, ids, t) ==
    IF current_green # NoLane /\ green_started_at # 0
    THEN IF t - green_started_at < current_green_time
         THEN current_green
         ELSE _choose_normal_lane(data, ids)
    ELSE _choose_normal_lane(data, ids)

\* steps 3 to 8 of update, the lane chosen
open_lane(data, em, chosen, after, t) ==
    /\ \A lane \in DOMAIN lanes :
           /\ after[lane].normal <= MaxNormal
           /\ lanes[lane].wait < MaxWait
    /\ lanes' = [lane \in DOMAIN lanes |->
                    [_apply_yellow(_update_waits(lanes, chosen), chosen)[lane]
                        EXCEPT !.normal = after[lane].normal]]
    /\ current_green' = chosen
    /\ green_started_at' = t
    /\ current_green_time' = _calculate_green_time(data[chosen])
    /\ last_emergency_lane' = IF em # NoLane THEN em ELSE last_emergency_lane
    /\ first_green_at' = IF chosen = current_green THEN first_green_at ELSE t
    /\ last_call' = [op |-> "update", outcome |-> "returned",
                     value |-> [lane \in DOMAIN lanes |->
                                   _apply_yellow(lanes, chosen)[lane].state]]
    /\ pre' = data
    /\ now' = t
    /\ calls' = calls + 1
    /\ UNCHANGED <<lane_order, exit_capacity, turn_map, conflicts, ambulances,
                   planned_ambulance_jobs, flat0, denied>>

choose_lane(data, em, chosen, t, draws) ==
    open_lane(data, em, chosen,
              _simulate_flow(data, lane_order, chosen,
                             _calculate_green_time(data[chosen]), draws), t)

decide_lane(data, em, t, draws) ==
    choose_lane(data, em,
                IF em # NoLane THEN em ELSE keep_or_choose(data, lane_order, t),
                t, draws)

\* update(lanes_data) of the single-movement controller with the clock
\* reading t and the random draws; the snapshot names every lane
DynamicTrafficController_update(snap, t, draws) ==
    decide_lane(data_of(snap, lanes),
                _choose_emergency_lane(data_of(snap, lanes),
                                       data_keys(snap, 1, <<>>), lane_order,
                                       last_emergency_lane),
                t, draws)

\* what one lane can report: a short queue, a long queue, an emergency
LaneReports ==
    << [normal |-> 1, emergency |-> 0],
       [normal |-> 5, emergency |-> 0],
       [normal |-> 2, emergency |-> 1] >>

\* snapshots that name every lane once, in the order of self.lane_ids
LaneSnapshots ==
    { [i \in 1..MaxLanes |->
          [lane_id |-> i, normal |-> LaneReports[r[i]].normal,
           emergency |-> LaneReports[r[i]].emergency]] :
      r \in [1..MaxLanes -> DOMAIN LaneReports] }

\* updates arrive every 2 s or after a pause of 4 s
UpdateTicks == {60, 120}

SingleStep ==
    /\ calls < MaxCalls
    /\ \E snap \in LaneSnapshots, step \in UpdateTicks, draws \in Draws :
           DynamicTrafficController_update(snap, now + step, draws)

SpecSingle == InitSingle /\ [][SingleStep]_vars

\* ------------------------------------------------------------------------
\* Properties
\* ------------------------------------------------------------------------
AllKeys == {<<lane, m>> : lane \in DOMAIN lanes, m \in MovSet}

GreenKeys == {k \in AllKeys : lanes[k[1]][k[2]].state = GREEN}

\* C1: whatever the calls made so far, no two movements whose light is GREEN
\* belong to the same lane or lead to the same destination lane.
C1_NoConflictingGreens ==
    \A k1 \in GreenKeys : \A k2 \in GreenKeys :
        k1 # k2 => /\ k1[1] # k2[1]
                   /\ turn_map[k1] # turn_map[k2]

\* C2: every call of update returns its light mapping; none ends in an
\* exception.
C2_UpdateAlwaysReturns ==
    last_call.op = "update" => last_call.outcome = "returned"

OneHot(v) == v \in {<<1, 0, 0>>, <<0, 1, 0>>, <<0, 0, 1>>}

\* C3: no call drops a lane from the topology, and the mapping an update
\* returns lists every lane of the topology with, for each of the three
\* movements, the lane's light as a vector holding exactly one 1.
C3_CompleteOneHotMapping ==
    [][/\ DOMAIN lanes \subseteq DOMAIN lanes'
       /\ (last_call'.op = "update" /\ last_call'.outcome = "returned") =>
              /\ DOMAIN last_call'.value = DOMAIN lanes'
              /\ \A lane \in DOMAIN lanes' :
                     /\ DOMAIN last_call'.value[lane] = MovSet
                     /\ \A m \in MovSet :
                            /\ last_call'.value[lane][m] = lanes'[lane][m].state
                            /\ OneHot(last_call'.value[lane][m])]_vars

\* an update on two lanes returned its mapping, with a GREEN light in it
C3_MappingWitness ==
    /\ last_call.op = "update"
    /\ last_call.outcome = "returned"
    /\ Cardinality(DOMAIN last_call.value) >= 2
    /\ \E lane \in DOMAIN last_call.value : \E m \in MovSet :
           last_call.value[lane][m] = GREEN

\* C4: no movement is left RED for starvation_limit + 3 * n_lanes updates in
\* a row while it has normal > 0 and an unblocked destination.
C4_GreenWithinK ==
    \A k \in DOMAIN denied :
        denied[k] < starvation_limit + 3 * Len(lane_order)

\* the ambulances on a known lane that arrive within reaction_margin of the
\* last clock reading, by their position in self.ambulances
Imminent ==
    {i \in DOMAIN ambulances :
        /\ <<ambulances[i].lane, ambulances[i].mov>> \in DOMAIN turn_map
        /\ ambulances[i].eta <= now + reaction_margin}

AmbKey(i) == <<ambulances[i].lane, ambulances[i].mov>>

\* ambulance j was selected in the phase and its movement is not compatible
\* with the movement of ambulance i (queues as ingested by the update)
Refuses(j, i) ==
    /\ AmbKey(j) \in Range(current_green.movs)
    /\ ~ movements_compatible(conflicts, turn_map, pre, exit_capacity,
                              AmbKey(i), AmbKey(j))

\* C5, as claimed: after an update, if an ambulance on a known lane arrives
\* within reaction_margin, the phase is an AMBULANCE phase and the movement
\* of the ambulance is GREEN, unless it is not compatible with the movement
\* of a selected ambulance that arrives strictly earlier.
C5_ImminentGreenUnlessEarlier ==
    last_call.op = "update" =>
        \A i \in Imminent :
            /\ current_green.kind = "ambulance_multi"
            /\ \/ AmbKey(i) \in GreenKeys
               \/ \E j \in DOMAIN ambulances :
                      /\ ambulances[j].eta < ambulances[i].eta
                      /\ Refuses(j, i)

\* C5, amended: ... unless it is not compatible with the movement of a
\* selected ambulance that arrives earlier, or that arrives at the same time
\* and stands before it in the list of registered ambulances.
C5_ImminentGreenUnlessPreceded ==
    last_call.op = "update" =>
        \A i \in Imminent :
            /\ current_green.kind = "ambulance_multi"
            /\ \/ AmbKey(i) \in GreenKeys
               \/ \E j \in DOMAIN ambulances :
                      /\ \/ ambulances[j].eta < ambulances[i].eta
                         \/ ambulances[j].eta = ambulances[i].eta /\ j < i
                      /\ Refuses(j, i)

\* two ambulances arrive within reaction_margin at different times; the
\* earlier one is GREEN and the later one is refused
C5_RefusedWitness ==
    /\ last_call.op = "update"
    /\ \E i \in Imminent : \E j \in Imminent :
           /\ ambulances[j].eta < ambulances[i].eta
           /\ AmbKey(j) \in GreenKeys
           /\ AmbKey(i) \notin GreenKeys

\* no planned ambulance job is running or imminent at the last clock reading
NoJobDue ==
    \A i \in DOMAIN planned_ambulance_jobs :
        /\ ~ (/\ planned_ambulance_jobs[i].start <= now
              /\ now <= planned_ambulance_jobs[i].start + planned_ambulance_jobs[i].G)
        /\ ~ (planned_ambulance_jobs[i].start <= now + reaction_margin)

\* the movements for which the snapshot of the last update reported an
\* emergency
Reported == {k \in DOMAIN flat0.val : flat0.val[k].emergency > 0}

\* C6: after an update with no ambulance job running or imminent and an
\* emergency reported on some movement, the phase is an EMERGENCY phase, one
\* movement is GREEN, no movement reported more emergencies than it, and
\* every other light is RED.
C6_EmergencyPreempts ==
    (last_call.op = "update" /\ NoJobDue /\ Reported # {}) =>
        /\ current_green.kind = "emergency"
        /\ \E g \in Reported :
               /\ GreenKeys = {g}
               /\ \A k \in DOMAIN flat0.val :
                      flat0.val[k].emergency <= flat0.val[g].emergency
               /\ \A k \in AllKeys \ {g} : lanes[k[1]][k[2]].state = RED

\* an EMERGENCY phase chosen while an ambulance is planned for later, two
\* movements report emergencies of different counts and another movement,
\* left RED, has a queue of 18
C6_PreemptWitness ==
    /\ last_call.op = "update"
    /\ last_call.outcome = "returned"
    /\ NoJobDue
    /\ planned_ambulance_jobs # <<>>
    /\ current_green.kind = "emergency"
    /\ \E k1 \in Reported : \E k2 \in Reported :
           flat0.val[k1].emergency < flat0.val[k2].emergency
    /\ \E k \in AllKeys \ GreenKeys : pre[k[1]][k[2]].normal >= 18

\* C7: after an update every movement granted GREEN has wait 0 and every
\* other movement has the wait it had before the update, plus one.
C7_WaitResetOrIncremented ==
    last_call.op = "update" =>
        \A k \in AllKeys :
            lanes[k[1]][k[2]].wait =
                IF k \in GreenKeys THEN 0 ELSE pre[k[1]][k[2]].wait + 1

NonNegative(L) ==
    \A lane \in DOMAIN L : \A m \in MovSet :
        /\ L[lane][m].normal >= 0
        /\ L[lane][m].emergency >= 0
        /\ L[lane][m].wait >= 0

\* C8: normal, emergency and wait of every movement are >= 0 once the
\* snapshot is ingested and when the update ends, whatever the calls made.
C8_NonNegative ==
    /\ NonNegative(pre)
    /\ NonNegative(lanes)
    /\ \A k \in DOMAIN flat0.val :
           /\ flat0.val[k].normal >= 0
           /\ flat0.val[k].emergency >= 0
           /\ flat0.val[k].wait >= 0

\* an update emptied the queue of a GREEN movement that held fewer vehicles
\* than the green could clear
C8_DrainedWitness ==
    /\ last_call.op = "update"
    /\ last_call.outcome = "returned"
    /\ \E g \in GreenKeys :
           /\ pre[g[1]][g[2]].normal > 0
           /\ pre[g[1]][g[2]].normal < clearance(current_green_time)
           /\ lanes[g[1]][g[2]].normal = 0

\* C9: after an update the destination of every GREEN movement was not
\* blocked when the phase was chosen, except in a NORMAL phase chosen while
\* every destination was blocked.
C9_GreenNeverIntoBlocked ==
    last_call.op = "update" =>
        \A g \in GreenKeys :
            \/ ~ exit_blocked(pre, exit_capacity, turn_map[g])
            \/ /\ current_green.kind = "normal_multi"
               /\ \A k \in AllKeys : exit_blocked(pre, exit_capacity, turn_map[k])

\* C10: after an update that chose a NORMAL phase at most
\* max(1, n_lanes \div 2) movements are GREEN.
C10_CophaseSizeBound ==
    (last_call.op = "update" /\ current_green.kind = "normal_multi") =>
        Cardinality(GreenKeys) <= Max(1, Len(lane_order) \div 2)

\* C11: after an update, no registered ambulance and no planned job has an
\* arrival time earlier than now minus one cycle, and when the arrival time
\* of every registered ambulance is that far in the past the phase is not an
\* AMBULANCE phase.
C11_ExpiredEvicted ==
    (last_call.op = "update" /\ last_call.outcome = "returned") =>
        \A step \in CycleTicks :
            /\ \A i \in 1..Len(ambulances) : ambulances[i].eta >= now - step
            /\ \A j \in 1..Len(planned_ambulance_jobs) :
                   planned_ambulance_jobs[j].t_a >= now - step
            /\ (\A i \in 1..Len(ambulances) : ambulances[i].eta < now - step)
                   => current_green.kind # "ambulance_multi"

\* a movement that has waited starvation_limit cycles, as the cycle found it
Starved(k) == k[1] \in DOMAIN pre /\ pre[k[1]][k[2]].wait >= starvation_limit

Queued(k) == k[1] \in DOMAIN pre /\ pre[k[1]][k[2]].normal > 0

Unblocked(k) ==
    k \in DOMAIN turn_map /\ ~ exit_blocked(pre, exit_capacity, turn_map[k])

starved_score(k) == bonus_key(pre[k[1]][k[2]].normal, pre[k[1]][k[2]].wait)

NormalCycle ==
    /\ last_call.op = "update"
    /\ last_call.outcome = "returned"
    /\ current_green.kind = "normal_multi"

C13_FailedUpdateLeavesState ==
    [][(last_call'.op = "update" /\ last_call'.outcome # "returned" /\ calls' # calls) =>
           /\ lanes' = lanes
           /\ current_green' = current_green
           /\ current_green_time' = current_green_time]_vars

\* C14: after a registration the lane of the ambulance is a lane of the
\* controller, and after the next update every registered ambulance has a
\* planned job.
C14_RegistrationCreatesLane ==
    /\ last_call.op = "register_ambulance" =>
           ambulances[Len(ambulances)].lane \in DOMAIN lanes
    /\ (last_call.op = "update" /\ last_call.outcome = "returned") =>
           \A i \in 1..Len(ambulances) :
               \E j \in 1..Len(planned_ambulance_jobs) :
                   planned_ambulance_jobs[j].amb = ambulances[i].id

\* C15: no stored normal or emergency count is negative once the snapshot
\* is ingested, also when the snapshot carries negative counts.
C15_NegativeSkipped ==
    \A lane \in DOMAIN pre : \A m \in MovSet :
        /\ pre[lane][m].normal >= 0
        /\ pre[lane][m].emergency >= 0

Blocked(k) == exit_blocked(pre, exit_capacity, turn_map[k])

\* normal * (1 + wait * wait_boost), + 10000 from starvation_limit on, of
\* the counts choose_normal_movement reads, whatever the state of the
\* destination
fairness(k) ==
    IF k \notin DOMAIN flat0.val THEN score_key(0, 0)
    ELSE IF flat0.val[k].wait >= starvation_limit
         THEN bonus_key(flat0.val[k].normal, flat0.val[k].wait)
    ELSE score_key(flat0.val[k].normal, flat0.val[k].wait)

\* C16: in a NORMAL cycle where the destination of every movement is
\* blocked the seed of the phase has the highest fairness score of all
\* movements, and in a NORMAL cycle where some movement has a destination
\* that is not blocked the seed is not a blocked movement.
C16_FallbackHighestScore ==
    NormalCycle =>
        /\ (\A k \in AllKeys : Blocked(k)) =>
               \A k \in AllKeys : fairness(k) <= fairness(current_green.movs[1])
        /\ (\E k \in AllKeys : ~ Blocked(k)) => ~ Blocked(current_green.movs[1])

ReturnedUpdate == last_call.op = "update" /\ last_call.outcome = "returned"

\* C17: after a cycle of duration d, the normal count of every movement of
\* the active set is lower than its count after ingestion by at most
\* floor(clearance_rate * d) (d = current_green_time ticks of 1/30 s).
C17_ClearanceBound ==
    ReturnedUpdate =>
        \A g \in Range(current_green.movs) :
            pre[g[1]][g[2]].normal - lanes[g[1]][g[2]].normal
                <= (clearance_rate * current_green_time) \div 30

\* two active movements that hold vehicles, the first of which pushes into
\* the straight queue of the second before that queue is cleared
C17_PushingPairWitness ==
    /\ ReturnedUpdate
    /\ \E i \in DOMAIN current_green.movs : \E j \in DOMAIN current_green.movs :
           /\ i < j
           /\ turn_map[current_green.movs[i]] = current_green.movs[j][1]
           /\ current_green.movs[j][2] = "straight"
           /\ pre[current_green.movs[i][1]][current_green.movs[i][2]].normal > 0
           /\ pre[current_green.movs[j][1]][current_green.movs[j][2]].normal > 0
           /\ lanes[current_green.movs[j][1]][current_green.movs[j][2]].normal
                  < pre[current_green.movs[j][1]][current_green.movs[j][2]].normal

\* the queues simulate_flow holds when it comes to the i-th active movement
before_active(i) ==
    flow_active(flat0.val, SubSeq(current_green.movs, 1, i - 1), 1,
                current_green_time, turn_map, exit_capacity).data

cleared_of(i) ==
    Min(before_active(i)[current_green.movs[i]].normal,
        clearance(current_green_time))

\* the queues once the i-th active movement has lost what it cleared
cut_of(i) ==
    [before_active(i) EXCEPT ![current_green.movs[i]].normal = @ - cleared_of(i)]

after_of(i) ==
    flow_one(before_active(i), current_green.movs[i], cleared_of(i),
             turn_map, exit_capacity).data

dest_of(i) == turn_map[current_green.movs[i]]

pushed_of(i) ==
    after_of(i)[<<dest_of(i), "straight">>].normal
        - cut_of(i)[<<dest_of(i), "straight">>].normal

space_of(i) ==
    Max(0, exit_capacity[dest_of(i)] - data_total(cut_of(i), dest_of(i)))

\* C18: for each active movement of a cycle, what is added to the straight
\* queue of its destination lane is min(cleared, space), space being
\* max(0, exit_capacity[dest] - total queued on dest) when the movement has
\* lost what it cleared; it is at most cleared, it leaves the total of the
\* destination lane at exit_capacity[dest] or below unless it was above
\* before, and no other queue changes.  The counts the cycle leaves on the
\* active movements are those of these transfers made one after the other.
C18_TransferWithinCapacity ==
    ReturnedUpdate =>
        /\ \A i \in DOMAIN current_green.movs :
               /\ pushed_of(i) = Min(cleared_of(i), space_of(i))
               /\ pushed_of(i) <= cleared_of(i)
               /\ data_total(after_of(i), dest_of(i))
                      <= Max(exit_capacity[dest_of(i)],
                             data_total(cut_of(i), dest_of(i)))
               /\ \A k \in DOMAIN flat0.val :
                      k # <<dest_of(i), "straight">> => after_of(i)[k] = cut_of(i)[k]
        /\ \A i \in DOMAIN current_green.movs :
               lanes[current_green.movs[i][1]][current_green.movs[i][2]].normal
                   = before_active(Len(current_green.movs) + 1)[current_green.movs[i]].normal

\* C19: the duration of every phase lies between min_green and max_green,
\* whatever the kind of the phase.
C19_GreenTimeWithinBounds ==
    /\ min_green <= current_green_time
    /\ current_green_time <= max_green

\* a phase lasts max_green because the green its queue asks for is longer
C19_CeilingWitness ==
    /\ ReturnedUpdate
    /\ current_green_time = max_green
    /\ \E g \in Range(current_green.movs) :
           24 * pre[g[1]][g[2]].normal + 60 * pre[g[1]][g[2]].emergency > max_green

\* the crossing of the claim: four lanes, and the straight movements of the
\* first and of the third
FourLanes == Len(lane_order) = Len(crossing(1, 1, 0))

Ahead == <<lane_order[1], "straight">>

Across == <<lane_order[3], "straight">>

Others == AllKeys \ {Ahead, Across}

queue_of(k) == pre[k[1]][k[2]].normal

\* normal * (1 + wait * wait_boost), the key the co-phase candidates are
\* sorted by
ranking(k) == score_key(pre[k[1]][k[2]].normal, pre[k[1]][k[2]].wait)

\* C20 as stated: with four lanes, in a NORMAL cycle without ambulances and
\* emergencies where the straight movements of lanes 1 and 3 hold the two
\* largest normal queues, of one vehicle at least, both are GREEN.
C20_CongestedPairBothGreen ==
    (NormalCycle /\ FourLanes) =>
        ((/\ queue_of(Ahead) >= 1
          /\ queue_of(Across) >= 1
          /\ \A k \in Others : /\ queue_of(k) < queue_of(Ahead)
                               /\ queue_of(k) < queue_of(Across))
             => {Ahead, Across} \subseteq GreenKeys)

\* C20: with four lanes, in a NORMAL cycle without ambulances and
\* emergencies where the straight movements of lanes 1 and 3 have the two
\* highest values of normal * (1 + wait * wait_boost), above that of every
\* other movement, where no other movement has waited starvation_limit
\* cycles and where lanes 1 and 3 are not blocked, both are GREEN.
C20_RankedUnblockedPairBothGreen ==
    (NormalCycle /\ FourLanes) =>
        ((/\ queue_of(Ahead) >= 1
          /\ queue_of(Across) >= 1
          /\ \A k \in Others : /\ ranking(k) < ranking(Ahead)
                               /\ ranking(k) < ranking(Across)
                               /\ ~ Starved(k)
          /\ Unblocked(Ahead)
          /\ Unblocked(Across))
             => {Ahead, Across} \subseteq GreenKeys)

\* both straight movements are GREEN in a cycle where another movement
\* holds vehicles
C20_PairGreenWitness ==
    /\ NormalCycle
    /\ FourLanes
    /\ {Ahead, Across} \subseteq GreenKeys
    /\ queue_of(Ahead) >= 1
    /\ queue_of(Across) >= 1
    /\ \E k \in Others : queue_of(k) >= 1
    /\ \A k \in Others : ranking(k) < ranking(Ahead) /\ ranking(k) < ranking(Across)

\* C21: after an EMERGENCY cycle last_emergency_lane is the lane of the
\* movement that was chosen, also when that movement alone held the largest
\* emergency count.
C21_EmergencyLaneRemembered ==
    (ReturnedUpdate /\ current_green.kind = "emergency") =>
        last_emergency_lane = current_green.movs[1][1]

\* C22: the green window [start, start + G] of every planned job ends at
\* the arrival time of its ambulance or later.
C22_WindowCoversArrival ==
    \A j \in DOMAIN planned_ambulance_jobs :
        planned_ambulance_jobs[j].start + planned_ambulance_jobs[j].G
            >= planned_ambulance_jobs[j].t_a

SameLaneOrDestination(a, b) == a[1] = b[1] \/ turn_map[a] = turn_map[b]

\* C23: over the current lanes conflicts[a] holds b, for a # b, exactly when
\* a and b leave the same lane or lead to the same lane; no movement is in
\* its own list, and b is in the list of a exactly when a is in that of b.
C23_ConflictRelation ==
    /\ DOMAIN conflicts = AllKeys
    /\ DOMAIN turn_map = AllKeys
    /\ \A a \in AllKeys :
           /\ a \notin Range(conflicts[a])
           /\ \A b \in AllKeys \ {a} :
                  /\ b \in Range(conflicts[a]) <=> SameLaneOrDestination(a, b)
                  /\ b \in Range(conflicts[a]) <=> a \in Range(conflicts[b])

\* C24: in the single-movement controller, an update in which no lane reports
\* an emergency and that comes current_green_time or more after the current
\* green lane first turned green opens the lane the normal chooser picks, so
\* that a lane is not kept GREEN beyond its green time by frequent updates
NoEmergencyReported(data) == \A lane \in DOMAIN data : data[lane].emergency = 0

C24_ChooserRerunAfterGreenTime ==
    [][(/\ last_call'.op = "update"
        /\ current_green # NoLane
        /\ NoEmergencyReported(pre')
        /\ now' - first_green_at >= current_green_time)
       => current_green' = _choose_normal_lane(pre', lane_order)]_vars

\* C25: after an update that returned, the light of a movement in the
\* returned mapping is GREEN exactly when its wait counter is 0, every light
\* that is not GREEN is RED, and some light is GREEN when the topology has a
\* lane.
C25_LightsAgreeWithWaits ==
    ReturnedUpdate =>
        /\ \A lane \in DOMAIN lanes : \A m \in MovSet :
               /\ last_call.value[lane][m] = GREEN <=> lanes[lane][m].wait = 0
               /\ last_call.value[lane][m] # GREEN => last_call.value[lane][m] = RED
        /\ lane_order # <<>> =>
               \E lane \in DOMAIN lanes : \E m \in MovSet :
                   last_call.value[lane][m] = GREEN

\* an ambulance phase returned with a GREEN movement at wait 0 beside a
\* movement that has been RED for two updates or more
C25_AmbulanceGreenWitness ==
    /\ ReturnedUpdate
    /\ current_green.kind = "ambulance_multi"
    /\ \E lane \in DOMAIN lanes : \E m \in MovSet :
           /\ last_call.value[lane][m] = GREEN
           /\ lanes[lane][m].wait = 0
    /\ \E lane \in DOMAIN lanes : \E m \in MovSet :
           /\ last_call.value[lane][m] = RED
           /\ lanes[lane][m].wait >= 2

====
